---- MODULE Spec2Model ----
(***************************************************************************)
(* Kocom wallpad bridge: the Hub of custom_components/kocom_wallpad/hub.py *)
(* as a state machine.  The hub owns one stream connection, a FIFO send    *)
(* queue, a read loop and a send loop (asyncio tasks), a reconnect task,   *)
(* and the Light / Outlet bank controllers with their debounce timers.     *)
(*                                                                         *)
(* Every asyncio task is a process whose program counter is one of its     *)
(* suspension points (the awaits that really suspend); the code between    *)
(* two suspension points runs atomically on the single event loop and is   *)
(* one action.  A task created with async_create_background_task is in pc  *)
(* "start" until the event loop first runs it.                             *)
(***************************************************************************)
EXTENDS Integers, Sequences, FiniteSets, TLC

(* ---------- program constants ---------- *)
max_reconnect_attempts == 5

(* ---------- bounds of the model ---------- *)
MaxConn == 2          \* connections opened in one behaviour
MaxRTasks == 2        \* reconnect tasks created in one behaviour
MaxLoops == 2         \* read/send loop pairs created in one behaviour
MaxFrames == 2        \* frames enqueued in one behaviour
MaxToggles == 2       \* turn_on / turn_off calls in one behaviour
MaxDisconnects == 2   \* disconnect() calls in one behaviour
MaxChunks == 2        \* chunks the peer sends in one behaviour
MaxRoom == 1          \* the highest room byte of a destination given to the codec

(* ---------- devices, vectors, packets ---------- *)
Wallpad == <<"Wallpad", 0>>

\* the configured banks: entry.data["light"] = {"1": size}, ["outlet"] = {"1": size}
Banks == {<<"Light", 1>>, <<"Outlet", 1>>}

\* light_size / outlet_size of the configured banks
Size(b) == 2

\* the channel indices of a bank's entities: range(controller.size)
Channels(b) == 0..(Size(b) - 1)

Zero8 == [i \in 0..7 |-> 0]

\* the configured air conditioners: entry.data["air_conditioner"] = ["1"]
AirConditionerRooms == {1}

\* the elevator, the gas valve and the fan are enabled, the air quality sensor is
\* disabled, and one thermostat is configured: entry.data["thermo"] = ["1"]
ElevatorEnabled == TRUE

GasValveEnabled == TRUE

FanEnabled == TRUE

ThermostatRooms == {1}

\* the key of the fan: the bare class, room byte 00 on the bus
Fan == <<"Fan", 0>>

\* the controllers that hold a plain 8-byte vector and send it whole at once: the
\* thermostats and the fan
Vectored ==
  {<<"Thermostat", r>> : r \in ThermostatRooms} \cup (IF FanEnabled THEN {Fan} ELSE {})

\* the key of the gas valve: the bare class, room byte 00 on the bus
GasValve == <<"GasValve", 0>>

\* the key a controller is registered under: the Elevator is addressed as the Wallpad
KeyOf(k) == IF k[1] = "Elevator" THEN <<"Wallpad", 0>> ELSE k

\* every controller of the configuration
Controllers ==
  Banks \cup {<<"AirConditioner", r>> : r \in AirConditionerRooms}
        \cup (IF ElevatorEnabled THEN {<<"Elevator", 0>>} ELSE {})
        \cup (IF GasValveEnabled THEN {GasValve} ELSE {})
        \cup Vectored

\* the state-update callbacks of the entities: async_write_ha_state of two entities
Callbacks == {"f", "g"}

\* before any chunk has been read
NoChunk ==
  [n |-> 0, data |-> <<>>, handled |-> {}, notified |-> {}, event |-> FALSE,
   sent |-> 0, good |-> 0, junk |-> FALSE, dispatched |-> 0,
   by |-> 0, invoked |-> <<>>, inflight |-> {}]

\* the values a bank reports on the bus: FF / 00 on its channels
BankValues(b) ==
  {[i \in 0..7 |-> IF i < Size(b) /\ i \in on THEN 255 ELSE 0] : on \in SUBSET Channels(b)}

\* KocomPacket.create: a data (Seq) frame whose source is always the Wallpad
KocomPacket_create(dst, cmd, value) ==
  [type |-> "Seq", dst |-> dst, src |-> Wallpad, cmd |-> cmd, value |-> value]

(* ---------- the wire format and KocomPacket(data) ---------- *)

\* _HEADER and _FOOTER
HEADER == <<170, 85>>
FOOTER == <<13, 13>>

\* the device class byte of each class the dispatcher names
DeviceCodes ==
  [Wallpad |-> 1, Light |-> 14, Thermostat |-> 54, GasValve |-> 44, Fan |-> 72,
   Elevator |-> 68, Outlet |-> 59, AirConditioner |-> 57, AirQuality |-> 152]

\* the command byte of each command
CommandCodes == [Set |-> 0, Get |-> 58, Lock |-> 2, Unlock |-> 1]

RECURSIVE SumBytes(_)
\* sum(body)
SumBytes(bs) == IF bs = <<>> THEN 0 ELSE Head(bs) + SumBytes(Tail(bs))

\* a frame whose checksum byte is the plain sum, not reduced mod 256
WireFrameRawSum(type, dst, src, cmd, value, off) ==
  LET body == type \o <<0>> \o dst \o src \o <<cmd>> \o value
  IN  HEADER \o body \o <<SumBytes(body) + off>> \o FOOTER

\* the 21 bytes of a frame on the bus: header, type, 00, destination, source, command,
\* value, checksum (the sum of bytes 2..17 mod 256, shifted by `off`), footer
WireFrame(type, dst, src, cmd, value, off) ==
  LET body == type \o <<0>> \o dst \o src \o <<cmd>> \o value
  IN  HEADER \o body \o <<(SumBytes(body) + off) % 256>> \o FOOTER

\* PacketType.parse: strict equality on the two type bytes
PacketType_parse(v) ==
  IF v = <<48, 188>> THEN "Seq"
  ELSE IF v = <<48, 220>> THEN "Ack"
  ELSE "ValueError"

\* a parse that keeps the class and drops the room byte
Device_parseNoRoom(v) ==
  IF \E c \in DOMAIN DeviceCodes : DeviceCodes[c] = v[1]
  THEN <<CHOOSE c \in DOMAIN DeviceCodes : DeviceCodes[c] = v[1], 0>>
  ELSE <<"ValueError", 0>>

\* Device.parse: the Wallpad is 01 00; any other class is picked by the first byte and
\* carries the second byte as its room
Device_parse(v) ==
  IF v = <<DeviceCodes.Wallpad, 0>> THEN <<"Wallpad", 0>>
  ELSE IF \E c \in DOMAIN DeviceCodes \ {"Wallpad"} : DeviceCodes[c] = v[1]
       THEN <<CHOOSE c \in DOMAIN DeviceCodes \ {"Wallpad"} : DeviceCodes[c] = v[1], v[2]>>
       ELSE <<"ValueError", 0>>

\* Command.parse
Command_parse(v) ==
  IF \E c \in DOMAIN CommandCodes : CommandCodes[c] = v[1]
  THEN CHOOSE c \in DOMAIN CommandCodes : CommandCodes[c] = v[1]
  ELSE "ValueError"

\* asserts that leave out the footer
FramingNoFooter(data) ==
  /\ Len(data) = 21
  /\ SubSeq(data, 1, 2) = HEADER

\* the asserts of KocomPacket.__init__: length, header, footer
FramingOk(data) ==
  /\ Len(data) = 21
  /\ SubSeq(data, 1, 2) = HEADER
  /\ SubSeq(data, 20, 21) = FOOTER

\* the parses of KocomPacket.__init__, lines 106-111: ValueError from a parse, else the
\* packet's fields; the checksum byte is stored, not verified
ParseFields(data) ==
  LET type == PacketType_parse(SubSeq(data, 3, 4))
      dst  == Device_parse(SubSeq(data, 6, 7))
      src  == Device_parse(SubSeq(data, 8, 9))
      cmd  == Command_parse(SubSeq(data, 10, 10))
  IN  IF type = "ValueError" \/ dst[1] = "ValueError" \/ src[1] = "ValueError"
         \/ cmd = "ValueError"
      THEN [err |-> "ValueError"]
      ELSE [err |-> "none", type |-> type, dst |-> dst, src |-> src, cmd |-> cmd,
            value |-> [i \in 0..7 |-> data[11 + i]], checksum |-> data[19]]

\* a constructor that also asserts the checksum byte
KocomPacketChecked(data) ==
  IF ~FramingOk(data) \/ data[19] # SumBytes(SubSeq(data, 3, 18)) % 256
  THEN [err |-> "AssertionError"]
  ELSE ParseFields(data)

\* asserts that all carry the message of the first
FailedAssertLengthOnly(data) == "Invalid packet length"

\* the message of the first assert of KocomPacket.__init__ that fails
FailedAssert(data) ==
  IF Len(data) # 21 THEN "Invalid packet length"
  ELSE IF SubSeq(data, 1, 2) # HEADER THEN "Invalid header"
  ELSE "Invalid footer"

\* KocomPacket(data): AssertionError from a failed assert, else the parses
KocomPacket_init(data) ==
  IF ~FramingOk(data)
  THEN [err |-> "AssertionError", msg |-> FailedAssert(data)]
  ELSE ParseFields(data)

VARIABLES
  reader, writer,            \* Hub._reader / Hub._writer: 0 is None, k > 0 the stream of connection k
  send_queue,                \* Hub._send_queue
  reconnect_task,            \* Hub._reconnect_task: 0 is None, t > 0 the task object t (running or finished)
  should_reconnect,          \* Hub._should_reconnect
  reconnect_attempt_count,   \* Hub._reconnect_attempt_count
  state,                     \* bank -> its 8-byte _state
  task,                      \* bank -> whether its _task handle is set (not None)
  timers,                    \* bank -> number of debounce tasks sleeping in asyncio.sleep(0.2)
  conn,                      \* connection -> "unopened" | "open" | "lost" | "closed"
  nConn,                     \* connections opened so far
  cpc,                       \* callers of connect(): 0 is async_setup_entry, t > 0 reconnect task t
  nRTasks,                   \* reconnect tasks created so far
  rloop,                     \* read_loop tasks:  [pc, rd]  (rd: the reader it awaits read(21) on)
  sloop,                     \* send_loop tasks:  [pc, wr]  (wr: the writer it awaits drain() on)
  nLoops,                    \* loop pairs created so far
  disc,                      \* disconnect(): "idle" | "closing" (awaiting wait_closed)
  discDone,                  \* history: completed disconnect() calls
  written,                   \* history: the frames passed to writer.write, in order
  nEnq,                      \* history: frames enqueued so far (the sequence number of the last one)
  consecFails,               \* history: failed attempts of the reconnect logic since the last success
  initFailed,                \* history: the initial connect's open_connection failed
  win,                       \* history: bank -> the current debounce window
  toggles,                   \* history: bank -> turn_on / turn_off calls
  sets,                      \* history: bank -> Set frames enqueued
  spaced,                    \* history: bank -> every call so far came when no timer was pending
  wire,                      \* connection -> the bytes the peer has sent on it, not yet read
  ac_state,                  \* room -> the 8-byte _state of its AirConditioner
  rx,                        \* history: the last chunk read and what the read loop did with it
  is_locked,                 \* GasValve.is_locked
  callbacks,                 \* controller -> its _callbacks, in the order the set is iterated
  dev_state,                 \* thermostat / fan -> its 8-byte _state
  codec                      \* the codec on its own: an input, the frame built, the decode result

hubVars == <<reader, writer, send_queue, reconnect_task, should_reconnect, reconnect_attempt_count>>
bankVars == <<state, task, timers>>
netVars == <<conn, nConn>>
loopVars == <<rloop, sloop, nLoops>>
bankHist == <<win, toggles, sets, spaced>>
rxVars == <<wire, ac_state, rx>>
ctlVars == <<is_locked, callbacks, dev_state>>
vars == <<hubVars, bankVars, netVars, cpc, nRTasks, loopVars, disc, discDone,
          written, nEnq, consecFails, initFailed, bankHist, rxVars, ctlVars, codec>>

Conns == 1..MaxConn
Callers == 0..MaxRTasks
RTasks == 1..MaxRTasks
Loops == 1..MaxLoops

\* a reconnect task that has been created and has neither finished nor been cancelled
Live == {"start", "connecting", "sleeping", "rsleep"}

\* a reconnect task inside a connection attempt or a backoff sleep
Attempting == {"connecting", "sleeping", "rsleep"}

\* the codec has been given nothing
NoCodec == [pc |-> "idle"]

(* ---------- Hub.__init__ ---------- *)
HubInit ==
  /\ reader = 0 /\ writer = 0
  /\ send_queue = <<>>
  /\ reconnect_task = 0
  /\ should_reconnect = TRUE
  /\ reconnect_attempt_count = 0
  /\ state = [b \in Banks |-> Zero8]
  /\ task = [b \in Banks |-> FALSE]
  /\ timers = [b \in Banks |-> 0]
  /\ conn = [k \in Conns |-> "unopened"]
  /\ nConn = 0
  /\ cpc = [c \in Callers |-> IF c = 0 THEN "init" ELSE "unborn"]
  /\ nRTasks = 0
  /\ rloop = [l \in Loops |-> [pc |-> "unborn", rd |-> 0]]
  /\ sloop = [l \in Loops |-> [pc |-> "unborn", wr |-> 0]]
  /\ nLoops = 0
  /\ disc = "idle"
  /\ discDone = 0
  /\ written = <<>>
  /\ nEnq = 0
  /\ consecFails = 0
  /\ initFailed = FALSE
  /\ win = [b \in Banks |-> [calls |-> 0, expect |-> Zero8, sent |-> <<>>]]
  /\ toggles = [b \in Banks |-> 0]
  /\ sets = [b \in Banks |-> 0]
  /\ spaced = [b \in Banks |-> TRUE]
  /\ wire = [k \in Conns |-> <<>>]
  /\ ac_state = [r \in AirConditionerRooms |-> Zero8]
  /\ rx = NoChunk
  /\ is_locked = FALSE
  /\ callbacks = [k \in Controllers |-> <<>>]
  /\ dev_state = [k \in Vectored |-> IF k = Fan THEN [Zero8 EXCEPT ![1] = 1] ELSE Zero8]

Init == HubInit /\ codec = NoCodec

(* ---------- helpers ---------- *)

\* Task.cancel() on handle h: a task that is still suspended dies at its await
Cancel(pcs, h) ==
  IF h # 0 /\ pcs[h] \in Live THEN [pcs EXCEPT ![h] = "cancelled"] ELSE pcs

\* async_create_background_task(read_loop) and (send_loop): one more pair of loops
CreateLoops ==
  /\ nLoops < MaxLoops
  /\ nLoops' = nLoops + 1
  /\ rloop' = [rloop EXCEPT ![nLoops + 1] = [pc |-> "start", rd |-> 0]]
  /\ sloop' = [sloop EXCEPT ![nLoops + 1] = [pc |-> "start", wr |-> 0]]

\* Hub._start_reconnect: guarded by the _reconnect_task handle
StartReconnect ==
  IF reconnect_task # 0
  THEN UNCHANGED <<reconnect_task, cpc, nRTasks>>
  ELSE /\ nRTasks < MaxRTasks
       /\ nRTasks' = nRTasks + 1
       /\ reconnect_task' = nRTasks + 1
       /\ cpc' = [cpc EXCEPT ![nRTasks + 1] = "start"]

\* Hub.connect, the head of its while loop reached by caller c with the counter at cnt:
\* either one more open_connection is awaited, or the loop is left, the counter reset
\* and connect() returns normally to its caller, which starts a read and a send loop
ConnectLoopHead(c, cnt) ==
  IF should_reconnect /\ cnt < max_reconnect_attempts
  THEN /\ cpc' = [cpc EXCEPT ![c] = "connecting"]
       /\ reconnect_attempt_count' = cnt
       /\ UNCHANGED loopVars
  ELSE /\ cpc' = [cpc EXCEPT ![c] = "done"]
       /\ reconnect_attempt_count' = 0
       /\ CreateLoops

\* the opposite test: raise only while a reconnect task exists
ConnectRaisesInverted == reconnect_task # 0

\* Hub.connect line 142: a failed attempt raises ConfigEntryNotReady when no reconnect task is set
ConnectRaises == reconnect_task = 0

(* ---------- async_setup_entry and the reconnect task ---------- *)

\* async_setup_entry: await hub.connect()
SetupBegin ==
  /\ cpc[0] = "init"
  /\ ConnectLoopHead(0, reconnect_attempt_count)
  /\ UNCHANGED <<rxVars, ctlVars, codec, reader, writer, send_queue, reconnect_task, should_reconnect, bankVars,
                 netVars, nRTasks, disc, discDone, written, nEnq, consecFails,
                 initFailed, bankHist>>

\* reconnect(): the head of `while self._should_reconnect`, first run or after its own sleep
ReconnectLoopHead(t) ==
  /\ cpc[t] \in {"start", "rsleep"}
  /\ IF should_reconnect
     THEN ConnectLoopHead(t, reconnect_attempt_count + 1)
     ELSE /\ cpc' = [cpc EXCEPT ![t] = "done"]
          /\ UNCHANGED <<reconnect_attempt_count, loopVars>>
  /\ UNCHANGED <<rxVars, ctlVars, codec, reader, writer, send_queue, reconnect_task, should_reconnect, bankVars,
                 netVars, nRTasks, disc, discDone, written, nEnq, consecFails,
                 initFailed, bankHist>>

\* a connect() that leaves the attempt counter as it is when the connection is opened
ConnectOkKeepsCount(c) ==
  /\ cpc[c] = "connecting"
  /\ nConn < MaxConn
  /\ nConn' = nConn + 1
  /\ conn' = [conn EXCEPT ![nConn + 1] = "open"]
  /\ reader' = nConn + 1
  /\ writer' = nConn + 1
  /\ reconnect_task' = 0
  /\ cpc' = [Cancel(cpc, reconnect_task) EXCEPT ![c] = "done"]
  /\ CreateLoops
  /\ consecFails' = 0
  /\ UNCHANGED <<rxVars, ctlVars, codec, send_queue, should_reconnect, bankVars, nRTasks, disc, discDone,
                 written, nEnq, initFailed, bankHist, reconnect_attempt_count>>

\* connect(): open_connection succeeded
ConnectOk(c) ==
  /\ cpc[c] = "connecting"
  /\ nConn < MaxConn
  /\ nConn' = nConn + 1
  /\ conn' = [conn EXCEPT ![nConn + 1] = "open"]
  /\ reader' = nConn + 1
  /\ writer' = nConn + 1
  /\ reconnect_task' = 0
  /\ cpc' = [Cancel(cpc, reconnect_task) EXCEPT ![c] = "done"]
  /\ reconnect_attempt_count' = 0
  /\ CreateLoops
  /\ consecFails' = 0
  /\ UNCHANGED <<rxVars, ctlVars, codec, send_queue, should_reconnect, bankVars, nRTasks, disc, discDone,
                 written, nEnq, initFailed, bankHist>>

\* connect(): open_connection raised OSError
ConnectFail(c) ==
  /\ cpc[c] = "connecting"
  /\ IF ConnectRaises
     THEN IF c = 0
          THEN /\ cpc' = [cpc EXCEPT ![c] = "failed"]
               /\ UNCHANGED <<should_reconnect, reconnect_attempt_count>>
          ELSE IF reconnect_attempt_count >= max_reconnect_attempts
               THEN /\ should_reconnect' = FALSE
                    /\ cpc' = [cpc EXCEPT ![c] = "done"]
                    /\ UNCHANGED reconnect_attempt_count
               ELSE /\ cpc' = [cpc EXCEPT ![c] = "rsleep"]
                    /\ UNCHANGED <<should_reconnect, reconnect_attempt_count>>
     ELSE /\ reconnect_attempt_count' = reconnect_attempt_count + 1
          /\ cpc' = [cpc EXCEPT ![c] = "sleeping"]
          /\ UNCHANGED should_reconnect
  /\ initFailed' = (initFailed \/ c = 0)
  /\ consecFails' = IF c = 0 THEN consecFails ELSE consecFails + 1
  /\ UNCHANGED <<rxVars, ctlVars, codec, reader, writer, send_queue, reconnect_task, bankVars, netVars, nRTasks,
                 loopVars, disc, discDone, written, nEnq, bankHist>>

\* connect(): asyncio.sleep(self._reconnect_interval) is over
BackoffDone(c) ==
  /\ cpc[c] = "sleeping"
  /\ ConnectLoopHead(c, reconnect_attempt_count)
  /\ UNCHANGED <<rxVars, ctlVars, codec, reader, writer, send_queue, reconnect_task, should_reconnect, bankVars,
                 netVars, nRTasks, disc, discDone, written, nEnq, consecFails,
                 initFailed, bankHist>>

\* the gateway or the network ends connection k
ConnLost(k) ==
  /\ conn[k] = "open"
  /\ conn' = [conn EXCEPT ![k] = "lost"]
  /\ UNCHANGED <<rxVars, ctlVars, codec, hubVars, bankVars, nConn, cpc, nRTasks, loopVars, disc, discDone,
                 written, nEnq, consecFails, initFailed, bankHist>>

(* ---------- the send queue ---------- *)

\* a last-in-first-out queue, against which FifoOrder is sensitive
QueuePutFront(q, x) == <<x>> \o q

\* asyncio.Queue.put on the unbounded queue
QueuePut(q, x) == Append(q, x)

\* asyncio.Queue.get: the item the queue hands out
QueueGet(q) == Head(q)

\* a get that takes the frame behind the one it hands out along with it
QueueRestSkipping(q) == IF Len(q) > 1 THEN Tail(Tail(q)) ELSE Tail(q)

\* the queue after get
QueueRest(q) == Tail(q)

\* Hub.send: encode and enqueue; the frame carries its enqueue number as history
Send(dst, cmd, value) ==
  /\ nEnq < MaxFrames
  /\ nEnq' = nEnq + 1
  /\ send_queue' = QueuePut(send_queue, [seq |-> nEnq + 1, pkt |-> KocomPacket_create(dst, cmd, value)])

(* ---------- read_loop ---------- *)

\* the head of `while self._reader is not None` and the call of self._reader.read(21):
\* StreamReader.read raises RuntimeError when another coroutine already waits on that reader
BeginRead(l) ==
  IF reader = 0
  THEN /\ rloop' = [rloop EXCEPT ![l] = [pc |-> "done", rd |-> 0]]
       /\ UNCHANGED <<reconnect_task, cpc, nRTasks>>
  ELSE IF \E m \in Loops : m # l /\ rloop[m].pc = "reading" /\ rloop[m].rd = reader
       THEN /\ rloop' = [rloop EXCEPT ![l] = [pc |-> "done", rd |-> 0]]
            /\ StartReconnect
       ELSE /\ rloop' = [rloop EXCEPT ![l] = [pc |-> "reading", rd |-> reader]]
            /\ UNCHANGED <<reconnect_task, cpc, nRTasks>>

\* the event loop first runs read loop l
ReadStart(l) ==
  /\ rloop[l].pc = "start"
  /\ BeginRead(l)
  /\ UNCHANGED <<rxVars, ctlVars, codec, reader, writer, send_queue, should_reconnect, reconnect_attempt_count,
                 bankVars, netVars, sloop, nLoops, disc, discDone, written, nEnq,
                 consecFails, initFailed, bankHist>>

\* a read loop that ends on the end of the stream without starting the reconnection
ReadEOFSilent(l) ==
  /\ rloop[l].pc = "reading"
  /\ conn[rloop[l].rd] # "open"
  /\ rloop' = [rloop EXCEPT ![l] = [pc |-> "done", rd |-> 0]]
  /\ UNCHANGED <<rxVars, ctlVars, codec, hubVars, bankVars, netVars, cpc, nRTasks, sloop,
                 nLoops, disc, discDone, written, nEnq, consecFails, initFailed, bankHist>>

\* read(21) returns b"" or raises on a connection that is gone: _start_reconnect, break
ReadEOF(l) ==
  /\ rloop[l].pc = "reading"
  /\ conn[rloop[l].rd] # "open"
  /\ rloop' = [rloop EXCEPT ![l] = [pc |-> "done", rd |-> 0]]
  /\ StartReconnect
  /\ UNCHANGED <<rxVars, ctlVars, codec, reader, writer, send_queue, should_reconnect, reconnect_attempt_count,
                 bankVars, netVars, sloop, nLoops, disc, discDone, written, nEnq,
                 consecFails, initFailed, bankHist>>

\* a handler that keeps byte [0] of the vector the controller holds
AssignStateKeepPower(st, value) == [value EXCEPT ![0] = st[0]]

\* `self._state = packet.value` of a _handle_packet: the vector after the assignment
AssignState(st, value) == value

\* LightController._handle_packet / OutletController._handle_packet
BankHandlePacket(b, value) ==
  /\ state' = [state EXCEPT ![b] = AssignState(@, value)]
  /\ task' = [task EXCEPT ![b] = FALSE]
  /\ UNCHANGED timers

\* read(21) returns a data frame whose source is bank b: dispatch, then the next read
ReadFrame(l, b, value) ==
  /\ rloop[l].pc = "reading"
  /\ conn[rloop[l].rd] = "open"
  /\ BankHandlePacket(b, value)
  /\ BeginRead(l)
  /\ UNCHANGED <<rxVars, ctlVars, codec, reader, writer, send_queue, should_reconnect, reconnect_attempt_count,
                 netVars, sloop, nLoops, disc, discDone, written, nEnq,
                 consecFails, initFailed, bankHist>>

\* read(21) returns a chunk that is dropped before any controller sees it (an invalid
\* packet, line 239, or an Ack, line 248): continue with the next read
ReadDiscard(l) ==
  /\ rloop[l].pc = "reading"
  /\ conn[rloop[l].rd] = "open"
  /\ BeginRead(l)
  /\ UNCHANGED <<rxVars, ctlVars, codec, reader, writer, send_queue, should_reconnect, reconnect_attempt_count,
                 bankVars, netVars, sloop, nLoops, disc, discDone, written, nEnq,
                 consecFails, initFailed, bankHist>>

(* ---------- the inbound byte stream ---------- *)

\* FF on channel 0, FF on channel 1, and other 8-byte values seen on the bus
OnFirst == [Zero8 EXCEPT ![0] = 255]
OnSecond == [Zero8 EXCEPT ![1] = 255]

\* an 8-byte value as the bytes of a frame
Bytes8(v) == [i \in 1..8 |-> v[i - 1]]

\* a data frame (type Seq) sent to the Wallpad by the device <<code, room>>
FromDevice(code, room, value) ==
  WireFrame(<<48, 188>>, <<DeviceCodes.Wallpad, 0>>, <<code, room>>, CommandCodes.Set,
            Bytes8(value), 0)

\* well-formed data frames whose source is a configured controller
GoodFrames ==
  { FromDevice(DeviceCodes.Light, 1, OnFirst),
    FromDevice(DeviceCodes.Outlet, 1, OnSecond),
    FromDevice(DeviceCodes.AirConditioner, 1, [Zero8 EXCEPT ![0] = 16, ![1] = 1]),
    FromDevice(DeviceCodes.AirConditioner, 1, [Zero8 EXCEPT ![0] = 16, ![1] = 7]),
    WireFrame(<<48, 188>>, <<DeviceCodes.Elevator, 0>>, <<DeviceCodes.Wallpad, 0>>,
              CommandCodes.Unlock, Bytes8([Zero8 EXCEPT ![0] = 3]), 0),
    WireFrame(<<48, 188>>, <<DeviceCodes.Elevator, 0>>, <<DeviceCodes.Wallpad, 0>>,
              CommandCodes.Unlock, Bytes8([Zero8 EXCEPT ![0] = 1]), 0) }

\* everything else the peer may send: frames for unconfigured or disabled devices, a
\* Wallpad frame not for the elevator, an Ack, a wrong checksum, broken framing, unknown
\* type / device class / command
OtherChunks ==
  { FromDevice(DeviceCodes.Light, 2, OnFirst),
    FromDevice(DeviceCodes.AirQuality, 0, [Zero8 EXCEPT ![0] = 17]),
    WireFrame(<<48, 188>>, <<DeviceCodes.Light, 1>>, <<DeviceCodes.Wallpad, 0>>,
              CommandCodes.Set, Bytes8(OnSecond), 0),
    WireFrame(<<48, 220>>, <<DeviceCodes.Wallpad, 0>>, <<DeviceCodes.Light, 1>>,
              CommandCodes.Set, Bytes8(OnSecond), 0),
    WireFrame(<<48, 188>>, <<DeviceCodes.Wallpad, 0>>, <<DeviceCodes.Light, 1>>,
              CommandCodes.Set, Bytes8([Zero8 EXCEPT ![0] = 255, ![1] = 255]), 1),
    [FromDevice(DeviceCodes.Light, 1, OnSecond) EXCEPT ![1] = 171],
    [FromDevice(DeviceCodes.Light, 1, OnSecond) EXCEPT ![21] = 10],
    SubSeq(FromDevice(DeviceCodes.Light, 1, OnSecond), 1, 20),
    WireFrame(<<48, 0>>, <<DeviceCodes.Wallpad, 0>>, <<DeviceCodes.Light, 1>>,
              CommandCodes.Set, Bytes8(OnSecond), 0),
    FromDevice(99, 1, OnSecond),
    WireFrame(<<48, 188>>, <<DeviceCodes.Wallpad, 0>>, <<DeviceCodes.Light, 1>>,
              119, Bytes8(OnSecond), 0) }

\* the peer sends the bytes d on the open connection
PeerSend(d) ==
  /\ reader # 0
  /\ conn[reader] = "open"
  /\ rx.sent < MaxChunks
  /\ wire' = [wire EXCEPT ![reader] = @ \o d]
  /\ rx' = [rx EXCEPT !.sent = @ + 1,
                      !.good = IF d \in GoodFrames THEN @ + 1 ELSE @,
                      !.junk = @ \/ d \notin GoodFrames]
  /\ UNCHANGED <<hubVars, bankVars, netVars, cpc, nRTasks, loopVars, disc, discDone,
                 written, nEnq, consecFails, initFailed, bankHist, ac_state, ctlVars,
                 codec>>

\* the sizes of a read short of the 21 bytes asked for, when the transport has so far
\* delivered only a part of what the peer sent
PartialSizes == {8}

\* read(21) returns up to 21 of the bytes received so far
ReadSizes(w) == {IF Len(w) < 21 THEN Len(w) ELSE 21} \cup {k \in PartialSizes : k < Len(w)}

\* a test that lets acknowledgements through
IsAckNever(pkt) == FALSE

\* line 248: packet.type == PacketType.Ack
IsAck(pkt) == pkt.type = "Ack"

\* a dispatch that sends a frame of an unconfigured room to the controller of room 1
ControllerAnyRoom(pkt) ==
  IF <<pkt.src[1], 1>> \in Banks THEN <<pkt.src[1], 1>> ELSE <<"none", 0>>

\* a dispatch on the room alone: every bank frame goes to the Light controller of its room
ControllerByRoom(pkt) ==
  IF pkt.src[1] \in {"Light", "Outlet"} /\ <<"Light", pkt.src[2]>> \in Banks
  THEN <<"Light", pkt.src[2]>>
  ELSE <<"none", 0>>

\* the match on packet.src, lines 252-312: the key of the controller whose _handle_packet
\* is awaited, <<"none", 0>> when the frame is only logged
Controller(pkt) ==
  IF pkt.src \in Banks THEN pkt.src
  ELSE IF pkt.src[1] = "Thermostat" /\ pkt.src[2] \in ThermostatRooms THEN pkt.src
  ELSE IF pkt.src[1] = "Fan" /\ FanEnabled THEN Fan
  ELSE IF pkt.src[1] = "GasValve" /\ GasValveEnabled THEN GasValve
  ELSE IF pkt.src[1] = "AirConditioner" /\ pkt.src[2] \in AirConditionerRooms THEN pkt.src
  ELSE IF pkt.src[1] = "Wallpad" /\ pkt.dst[1] = "Elevator" /\ ElevatorEnabled
       THEN <<"Elevator", 0>>
  ELSE <<"none", 0>>

\* write_ha_state is reached: the controller's callbacks are invoked
Notifies(k, pkt) ==
  \/ k \in Banks
  \/ k = GasValve
  \/ k \in Vectored
  \/ k[1] = "AirConditioner" /\ pkt.value[1] \in 0..3

\* an arrival signalled by every elevator frame, whatever its value
ArrivalAlways(k, pkt) == k[1] = "Elevator"

\* Elevator._handle_packet: the arrival event goes to the registered event handler
Arrival(k, pkt) == k[1] = "Elevator" /\ pkt.value[0] = 3

\* _handle_packet raises: the AirConditioner.mode property on a mode byte outside 0..3,
\* or a callback / event handler that fails (cb_ok = FALSE)
HandlerRaises(k, pkt, cb_ok) ==
  \/ k[1] = "AirConditioner" /\ pkt.value[1] \notin 0..3
  \/ Notifies(k, pkt) /\ callbacks[k] # <<>> /\ ~cb_ok
  \/ Arrival(k, pkt) /\ ~cb_ok

\* _HubChild.write_ha_state as _handle_packet reaches it: the callbacks called, in the
\* order of the iteration, which ends at the first callback that raises
Invoked(k, pkt, cb_ok) ==
  IF ~Notifies(k, pkt) \/ callbacks[k] = <<>> THEN <<>>
  ELSE IF cb_ok THEN callbacks[k]
  ELSE <<Head(callbacks[k])>>

\* a valve handler that latches: Unlock is ignored
GasValveHandleLatch(cmd, locked) == IF cmd = "Lock" THEN TRUE ELSE locked

\* GasValve._handle_packet: the match on packet.cmd
GasValveHandle(cmd, locked) ==
  IF cmd = "Lock" THEN TRUE
  ELSE IF cmd = "Unlock" THEN FALSE
  ELSE locked

\* a handler of a bank that suspends before it returns
HandlerSuspendsInBank(k) == k \in Banks

\* no _handle_packet and no write_ha_state holds an await that suspends: the handler the
\* read loop awaits has returned (or raised) when the pass ends
HandlerSuspends(k) == FALSE

\* the read loop's `except Exception`, lines 313-323: _start_reconnect, break
ReadRaise(l) ==
  /\ rloop' = [rloop EXCEPT ![l] = [pc |-> "done", rd |-> 0]]
  /\ StartReconnect

\* one pass of the read loop's body: read(21) returns the first n bytes received (bytes
\* buffered before the connection ended are still returned), KocomPacket(data), the Ack
\* test, the dispatch and the controller's _handle_packet
ReadChunk(l, n, cb_ok) ==
  /\ rloop[l].pc = "reading"
  /\ wire[rloop[l].rd] # <<>>
  /\ n \in ReadSizes(wire[rloop[l].rd])
  /\ LET c    == rloop[l].rd
         data == SubSeq(wire[c], 1, n)
         pkt  == KocomPacket_init(data)
         k    == IF pkt.err = "none" /\ ~IsAck(pkt) THEN Controller(pkt)
                 ELSE <<"none", 0>>
         hit  == k[1] # "none"
         fail == pkt.err = "ValueError" \/ (hit /\ HandlerRaises(k, pkt, cb_ok))
     IN  /\ wire' = [wire EXCEPT ![c] = SubSeq(@, n + 1, Len(@))]
         /\ state' = IF k \in Banks THEN [state EXCEPT ![k] = AssignState(@, pkt.value)]
                     ELSE state
         /\ task' = IF k \in Banks /\ ~fail THEN [task EXCEPT ![k] = FALSE] ELSE task
         /\ ac_state' = IF k[1] = "AirConditioner"
                        THEN [ac_state EXCEPT ![k[2]] = AssignState(@, pkt.value)]
                        ELSE ac_state
         /\ is_locked' = IF k = GasValve THEN GasValveHandle(pkt.cmd, is_locked)
                         ELSE is_locked
         /\ dev_state' = IF k \in Vectored
                         THEN [dev_state EXCEPT ![k] = AssignState(@, pkt.value)]
                         ELSE dev_state
         /\ rx' = [rx EXCEPT !.n = @ + 1, !.data = data,
                             !.handled = IF hit THEN {k} ELSE {},
                             !.notified = IF hit /\ Notifies(k, pkt) THEN {k} ELSE {},
                             !.event = hit /\ Arrival(k, pkt),
                             !.dispatched = IF hit THEN @ + 1 ELSE @,
                             !.by = l,
                             !.invoked = IF hit THEN Invoked(k, pkt, cb_ok) ELSE <<>>,
                             !.inflight = IF hit /\ HandlerSuspends(k) THEN {k} ELSE {}]
         /\ IF fail THEN ReadRaise(l) ELSE BeginRead(l)
  /\ UNCHANGED <<reader, writer, send_queue, should_reconnect, reconnect_attempt_count,
                 timers, netVars, sloop, nLoops, disc, discDone, written, nEnq,
                 consecFails, initFailed, bankHist, callbacks, codec>>

(* ---------- send_loop ---------- *)

\* the head of `while self._writer is not None`, then await self._send_queue.get()
SendLoopHead(l) ==
  sloop' = [sloop EXCEPT ![l] = IF writer = 0 THEN [pc |-> "done", wr |-> 0]
                                              ELSE [pc |-> "get", wr |-> 0]]

\* the event loop first runs send loop l
SendStart(l) ==
  /\ sloop[l].pc = "start"
  /\ SendLoopHead(l)
  /\ UNCHANGED <<rxVars, ctlVars, codec, hubVars, bankVars, netVars, cpc, nRTasks, rloop, nLoops, disc, discDone,
                 written, nEnq, consecFails, initFailed, bankHist>>

\* get() returns a frame and self._writer.write(packet) is called with no suspension between;
\* with _writer None the call raises AttributeError: _start_reconnect, break
SendWrite(l) ==
  /\ sloop[l].pc = "get"
  /\ send_queue # <<>>
  /\ send_queue' = QueueRest(send_queue)
  /\ IF writer = 0
     THEN /\ sloop' = [sloop EXCEPT ![l] = [pc |-> "done", wr |-> 0]]
          /\ StartReconnect
          /\ UNCHANGED written
     ELSE /\ sloop' = [sloop EXCEPT ![l] = [pc |-> "drain", wr |-> writer]]
          /\ written' = Append(written, [seq |-> QueueGet(send_queue).seq,
                                         pkt |-> QueueGet(send_queue).pkt,
                                         conn |-> writer])
          /\ UNCHANGED <<reconnect_task, cpc, nRTasks>>
  /\ UNCHANGED <<rxVars, ctlVars, codec, reader, writer, should_reconnect, reconnect_attempt_count, bankVars,
                 netVars, rloop, nLoops, disc, discDone, nEnq, consecFails, initFailed,
                 bankHist>>

\* await self._writer.drain() returns: asyncio.sleep(1) begins
SendDrainOk(l) ==
  /\ sloop[l].pc = "drain"
  /\ conn[sloop[l].wr] \in {"open", "lost"}
  /\ sloop' = [sloop EXCEPT ![l].pc = "sleep"]
  /\ UNCHANGED <<rxVars, ctlVars, codec, hubVars, bankVars, netVars, cpc, nRTasks, rloop, nLoops, disc, discDone,
                 written, nEnq, consecFails, initFailed, bankHist>>

\* await self._writer.drain() raises on a connection that is gone: _start_reconnect, break
SendDrainFail(l) ==
  /\ sloop[l].pc = "drain"
  /\ conn[sloop[l].wr] # "open"
  /\ sloop' = [sloop EXCEPT ![l] = [pc |-> "done", wr |-> 0]]
  /\ StartReconnect
  /\ UNCHANGED <<rxVars, ctlVars, codec, reader, writer, send_queue, should_reconnect, reconnect_attempt_count,
                 bankVars, netVars, rloop, nLoops, disc, discDone, written, nEnq,
                 consecFails, initFailed, bankHist>>

\* asyncio.sleep(1) is over: task_done, back to the head of the loop
SendSleepDone(l) ==
  /\ sloop[l].pc = "sleep"
  /\ SendLoopHead(l)
  /\ UNCHANGED <<rxVars, ctlVars, codec, hubVars, bankVars, netVars, cpc, nRTasks, rloop, nLoops, disc, discDone,
                 written, nEnq, consecFails, initFailed, bankHist>>

(* ---------- Hub.disconnect ---------- *)

\* a disconnect() that leaves automatic reconnection enabled
DisconnectKeepsFlag == TRUE

\* line 150: automatic reconnection is switched off
DisconnectFlag == FALSE

\* a finally clause that releases the writer only
DisconnectReleaseWriterOnly ==
  /\ reader' = reader
  /\ writer' = 0

\* the finally clause, line 162: both handles are released
DisconnectRelease ==
  /\ reader' = 0
  /\ writer' = 0

\* disconnect() up to `await self._writer.wait_closed()`, or to its end when _writer is None.
\* Home Assistant unloads an entry only after its setup has ended.
DisconnectBegin ==
  /\ disc = "idle"
  /\ cpc[0] = "done"
  /\ discDone + (IF disc = "closing" THEN 1 ELSE 0) < MaxDisconnects
  /\ should_reconnect' = DisconnectFlag
  /\ cpc' = Cancel(cpc, reconnect_task)
  /\ reconnect_task' = 0
  /\ IF writer # 0
     THEN /\ conn' = [conn EXCEPT ![writer] = IF @ = "open" THEN "closed" ELSE @]
          /\ disc' = "closing"
          /\ UNCHANGED discDone
     ELSE /\ discDone' = discDone + 1
          /\ UNCHANGED <<conn, disc>>
  /\ UNCHANGED <<rxVars, ctlVars, codec, reader, writer, send_queue, reconnect_attempt_count, bankVars, nConn,
                 nRTasks, loopVars, written, nEnq, consecFails, initFailed,
                 bankHist>>

\* wait_closed() is over (or raised): the finally clause runs and disconnect() returns
DisconnectEnd ==
  /\ disc = "closing"
  /\ DisconnectRelease
  /\ disc' = "idle"
  /\ discDone' = discDone + 1
  /\ UNCHANGED <<rxVars, ctlVars, codec, send_queue, reconnect_task, should_reconnect, reconnect_attempt_count,
                 bankVars, netVars, cpc, nRTasks, loopVars, written, nEnq, consecFails,
                 initFailed, bankHist>>

(* ---------- Light / Outlet banks ---------- *)

\* _set: the debounce task is created only when the _task handle is None
BankSet(b) ==
  IF ~task[b]
  THEN /\ task' = [task EXCEPT ![b] = TRUE]
       /\ timers' = [timers EXCEPT ![b] = @ + 1]
  ELSE UNCHANGED <<task, timers>>

\* a turn_on / turn_off that writes every channel of the bank
SetChannelAll(st, n, byte) == [i \in 0..7 |-> byte]

\* lines 477 and 487: self._state[n] = 0xFF / 0x00
SetChannel(st, n, byte) == [st EXCEPT ![n] = byte]

\* is_on: self._state[light] == 0xFF
IsOn(st, n) == st[n] = 255

TotalToggles == toggles[<<"Light", 1>>] + toggles[<<"Outlet", 1>>]

\* turn_on(n) (byte = 255) / turn_off(n) (byte = 0) of an entity, which exists once setup is over
Toggle(b, n, byte) ==
  /\ cpc[0] = "done"
  /\ TotalToggles < MaxToggles
  /\ state' = [state EXCEPT ![b] = SetChannel(@, n, byte)]
  /\ BankSet(b)
  /\ toggles' = [toggles EXCEPT ![b] = @ + 1]
  /\ spaced' = [spaced EXCEPT ![b] = @ /\ timers[b] = 0]
  /\ win' = [win EXCEPT ![b] =
               IF timers[b] = 0
               THEN [calls |-> 1, expect |-> [state[b] EXCEPT ![n] = byte], sent |-> <<>>]
               ELSE [calls |-> @.calls + 1, expect |-> [@.expect EXCEPT ![n] = byte],
                     sent |-> @.sent]]
  /\ UNCHANGED <<rxVars, ctlVars, codec, hubVars, netVars, cpc, nRTasks, loopVars, disc, discDone, written, nEnq,
                 consecFails, initFailed, sets>>

\* the debounce task: asyncio.sleep(0.2) is over, hub.send(device, Set, _state)
TimerFire(b) ==
  /\ timers[b] > 0
  /\ timers' = [timers EXCEPT ![b] = @ - 1]
  /\ Send(b, "Set", state[b])
  /\ sets' = [sets EXCEPT ![b] = @ + 1]
  /\ win' = [win EXCEPT ![b].sent = Append(@, state[b])]
  /\ UNCHANGED <<rxVars, ctlVars, codec, reader, writer, reconnect_task, should_reconnect, reconnect_attempt_count,
                 state, task, netVars, cpc, nRTasks, loopVars, disc, discDone, written,
                 consecFails, initFailed, toggles, spaced>>

\* a refresh() that sends the command Set
RefreshAsSet(b) ==
  /\ cpc[0] = "done"
  /\ Send(b, "Set", Zero8)
  /\ UNCHANGED <<rxVars, ctlVars, codec, reader, writer, reconnect_task, should_reconnect, reconnect_attempt_count,
                 bankVars, netVars, cpc, nRTasks, loopVars, disc, discDone, written,
                 consecFails, initFailed, bankHist>>

\* _HubChild.refresh: hub.send(device, Get)
Refresh(b) ==
  /\ cpc[0] = "done"
  /\ Send(b, "Get", Zero8)
  /\ UNCHANGED <<rxVars, ctlVars, codec, reader, writer, reconnect_task, should_reconnect, reconnect_attempt_count,
                 bankVars, netVars, cpc, nRTasks, loopVars, disc, discDone, written,
                 consecFails, initFailed, bankHist>>

(* ---------- the gas valve and the elevator call ---------- *)

\* a lock() that asks the valve to open
LockCommandUnlock == "Unlock"

\* line 731: the command of the frame lock() sends
LockCommand == "Lock"

\* GasValve.lock: hub.send(Device.GasValve, Command.Lock)
Lock ==
  /\ cpc[0] = "done"
  /\ Send(GasValve, LockCommand, Zero8)
  /\ UNCHANGED <<rxVars, ctlVars, codec, reader, writer, reconnect_task, should_reconnect,
                 reconnect_attempt_count, bankVars, netVars, cpc, nRTasks, loopVars, disc,
                 discDone, written, consecFails, initFailed, bankHist>>

\* a call built by the normal encoder: from the Wallpad to the Elevator
CallThroughCreate ==
  /\ cpc[0] = "done"
  /\ ElevatorEnabled
  /\ Send(<<"Elevator", 0>>, "Elevator", Zero8)
  /\ UNCHANGED <<rxVars, ctlVars, codec, reader, writer, reconnect_task, should_reconnect,
                 reconnect_attempt_count, bankVars, netVars, cpc, nRTasks, loopVars, disc,
                 discDone, written, consecFails, initFailed, bankHist>>

\* Elevator.call: the raw call frame (to 01 00, from 44 00, command 01) goes to
\* hub.send_packet, which enqueues it as it is
Call ==
  /\ cpc[0] = "done"
  /\ ElevatorEnabled
  /\ nEnq < MaxFrames
  /\ nEnq' = nEnq + 1
  /\ send_queue' = QueuePut(send_queue,
                            [seq |-> nEnq + 1,
                             pkt |-> [type |-> "Seq", dst |-> Wallpad,
                                      src |-> <<"Elevator", 0>>, cmd |-> "Elevator",
                                      value |-> Zero8]])
  /\ UNCHANGED <<rxVars, ctlVars, codec, reader, writer, reconnect_task, should_reconnect,
                 reconnect_attempt_count, bankVars, netVars, cpc, nRTasks, loopVars, disc,
                 discDone, written, consecFails, initFailed, bankHist>>

\* a data frame sent to the Wallpad by the gas valve, with command cmd
FromGasValve(cmd, value) ==
  WireFrame(<<48, 188>>, <<DeviceCodes.Wallpad, 0>>, <<DeviceCodes.GasValve, 0>>,
            CommandCodes[cmd], Bytes8(value), 0)

\* the frames the gas valve sends: Lock, Unlock (also with value bytes set), and frames
\* with another command
ValveFrames ==
  { FromGasValve("Lock", Zero8),
    FromGasValve("Unlock", Zero8),
    FromGasValve("Unlock", [i \in 0..7 |-> 255]),
    FromGasValve("Set", OnFirst),
    FromGasValve("Get", Zero8) }

\* the gas valve over a connection that stays up: its frames arrive while lock() and
\* refresh() are called
ValveNext ==
  \/ SetupBegin
  \/ ConnectOk(0)
  \/ \E l \in Loops : ReadStart(l)
  \/ \E d \in ValveFrames : PeerSend(d)
  \/ \E l \in Loops : ReadChunk(l, 21, TRUE)
  \/ Lock
  \/ Refresh(GasValve)

\* the frame that answers the refresh() of a bank
CmdFrames == {FromDevice(DeviceCodes.Light, 1, OnFirst)}

\* the producers of the send queue over a connection that stays up: lock(), the elevator
\* call and refresh() of any controller enqueue, the send loop writes, and the answer of
\* a bank arrives
CmdNext ==
  \/ SetupBegin
  \/ ConnectOk(0)
  \/ \E l \in Loops : ReadStart(l)
  \/ \E d \in CmdFrames : PeerSend(d)
  \/ \E l \in Loops : ReadChunk(l, 21, TRUE)
  \/ Lock
  \/ Call
  \/ \E k \in Controllers : Refresh(KeyOf(k))
  \/ \E l \in Loops : SendStart(l)
  \/ \E l \in Loops : SendWrite(l)
  \/ \E l \in Loops : SendDrainOk(l)
  \/ \E l \in Loops : SendSleepDone(l)

\* the send queue between its producers and the send loop over a connection that stays
\* up: send() through lock() and refresh(), send_packet() through the elevator call
SendNext ==
  \/ SetupBegin
  \/ ConnectOk(0)
  \/ Lock
  \/ Call
  \/ \E b \in Banks : Refresh(b)
  \/ \E l \in Loops : SendStart(l)
  \/ \E l \in Loops : SendWrite(l)
  \/ \E l \in Loops : SendDrainOk(l)
  \/ \E l \in Loops : SendSleepDone(l)

(* ---------- the thermostats and the fan ---------- *)

\* Thermostat.on / off / away / set_temp: the assignments to self._state
OnVector(st) == [st EXCEPT ![0] = 17, ![1] = 0]
OffVector(st) == [st EXCEPT ![0] = 1, ![1] = 0]
AwayVector(st) == [st EXCEPT ![0] = 17, ![1] = 1]
TempVector(st, t) == [st EXCEPT ![2] = t]

\* the getters of a thermostat
Thermostat_is_on(st) == st[0] = 17
Thermostat_is_away(st) == st[1] = 1
Thermostat_target_temp(st) == st[2]

\* Fan.set_step: the assignments to self._state
StepVector(st, step) ==
  IF step = 0 THEN [st EXCEPT ![0] = 0] ELSE [st EXCEPT ![0] = 17, ![2] = step * 64]

\* the getters of the fan
Fan_is_on(st) == st[0] = 17
Fan_step(st) == st[2] \div 64

\* a _send that waits for a debounce task: nothing is enqueued by the call
VectoredSendLater(k, st) ==
  /\ cpc[0] = "done"
  /\ dev_state' = [dev_state EXCEPT ![k] = st]
  /\ UNCHANGED <<rxVars, is_locked, callbacks, codec, hubVars, bankVars, netVars, cpc,
                 nRTasks, loopVars, disc, discDone, written, nEnq, consecFails, initFailed,
                 bankHist>>

\* a method of a thermostat or of the fan: the vector is assigned, then _send calls
\* hub.send(device, Set, self._state) at once
VectoredSend(k, st) ==
  /\ cpc[0] = "done"
  /\ dev_state' = [dev_state EXCEPT ![k] = st]
  /\ Send(k, "Set", st)
  /\ UNCHANGED <<rxVars, is_locked, callbacks, codec, reader, writer, reconnect_task,
                 should_reconnect, reconnect_attempt_count, bankVars, netVars, cpc, nRTasks,
                 loopVars, disc, discDone, written, consecFails, initFailed, bankHist>>

\* the target temperature an entity asks for
Temps == {25}

\* Thermostat.on / off / away / set_temp of the thermostat of room r
on(r) == VectoredSend(<<"Thermostat", r>>, OnVector(dev_state[<<"Thermostat", r>>]))
off(r) == VectoredSend(<<"Thermostat", r>>, OffVector(dev_state[<<"Thermostat", r>>]))
away(r) == VectoredSend(<<"Thermostat", r>>, AwayVector(dev_state[<<"Thermostat", r>>]))
set_temp(r, t) == VectoredSend(<<"Thermostat", r>>, TempVector(dev_state[<<"Thermostat", r>>], t))

\* Fan.set_step
set_step(step) == FanEnabled /\ VectoredSend(Fan, StepVector(dev_state[Fan], step))

\* the frames of the thermostat and of the fan: a thermostat in away mode at 22 degrees,
\* and a fan at step 2 whose byte [1] is 00
DevFrames ==
  { FromDevice(DeviceCodes.Thermostat, 1, [Zero8 EXCEPT ![0] = 17, ![1] = 1, ![2] = 22, ![4] = 21]),
    FromDevice(DeviceCodes.Fan, 0, [Zero8 EXCEPT ![0] = 17, ![2] = 128]) }

\* the thermostat and the fan are operated while their frames arrive over a connection
\* that stays up
DevNext ==
  \/ SetupBegin
  \/ ConnectOk(0)
  \/ \E l \in Loops : ReadStart(l)
  \/ \E d \in DevFrames : PeerSend(d)
  \/ \E l \in Loops : ReadChunk(l, 21, TRUE)
  \/ \E r \in ThermostatRooms : on(r)
  \/ \E r \in ThermostatRooms : off(r)
  \/ \E r \in ThermostatRooms : away(r)
  \/ \E r \in ThermostatRooms, t \in Temps : set_temp(r, t)
  \/ \E step \in 0..3 : set_step(step)

\* one frame of each kind of controller that holds a vector: a light bank with its second
\* channel on, an outlet bank all off, an air conditioner on in mode 1, a thermostat in
\* away mode at 22 degrees, a fan at step 2
AuthFrames ==
  { FromDevice(DeviceCodes.Light, 1, OnSecond),
    FromDevice(DeviceCodes.Outlet, 1, Zero8),
    FromDevice(DeviceCodes.AirConditioner, 1, [Zero8 EXCEPT ![0] = 16, ![1] = 1]),
    FromDevice(DeviceCodes.Thermostat, 1, [Zero8 EXCEPT ![0] = 17, ![1] = 1, ![2] = 22, ![4] = 21]),
    FromDevice(DeviceCodes.Fan, 0, [Zero8 EXCEPT ![0] = 17, ![1] = 1, ![2] = 128]) }

\* the controllers are operated locally while the frames of their devices arrive over a
\* connection that stays up
AuthNext ==
  \/ SetupBegin
  \/ ConnectOk(0)
  \/ \E l \in Loops : ReadStart(l)
  \/ \E d \in AuthFrames : PeerSend(d)
  \/ \E l \in Loops : ReadChunk(l, 21, TRUE)
  \/ Toggle(<<"Light", 1>>, 0, 255)
  \/ \E r \in ThermostatRooms : on(r)
  \/ set_step(3)

(* ---------- the callbacks of a controller ---------- *)

\* the elements of a sequence
Range(q) == {q[i] : i \in 1..Len(q)}

\* set.add: a set holds an element once; kept here in the order of the iteration
SetAdd(q, f) == IF f \in Range(q) THEN q ELSE Append(q, f)

\* set.discard: removes the element if it is there, raises nothing if it is not
SetDiscard(q, f) == SelectSeq(q, LAMBDA x : x # f)

\* the controllers whose entities register callbacks here
CbControllers == {<<"Light", 1>>, <<"AirConditioner", 1>>}

\* _HubChild.register_callback, called by an entity (async_added_to_hass)
Register(k, f) ==
  /\ cpc[0] = "done"
  /\ callbacks' = [callbacks EXCEPT ![k] = SetAdd(@, f)]
  /\ UNCHANGED <<rxVars, is_locked, dev_state, codec, hubVars, bankVars, netVars, cpc, nRTasks, loopVars,
                 disc, discDone, written, nEnq, consecFails, initFailed, bankHist>>

\* _HubChild.remove_callback, called by an entity (async_will_remove_from_hass)
Remove(k, f) ==
  /\ cpc[0] = "done"
  /\ callbacks' = [callbacks EXCEPT ![k] = SetDiscard(@, f)]
  /\ UNCHANGED <<rxVars, is_locked, dev_state, codec, hubVars, bankVars, netVars, cpc, nRTasks, loopVars,
                 disc, discDone, written, nEnq, consecFails, initFailed, bankHist>>

\* the frames that reach the controllers with callbacks: a bank's vector, an air
\* conditioner's state with mode byte 1 and with mode byte 7
CbFrames ==
  { FromDevice(DeviceCodes.Light, 1, OnSecond),
    FromDevice(DeviceCodes.AirConditioner, 1, [Zero8 EXCEPT ![0] = 16, ![1] = 1]),
    FromDevice(DeviceCodes.AirConditioner, 1, [Zero8 EXCEPT ![0] = 16, ![1] = 7]) }

\* entities register and remove their callbacks while frames arrive over a connection
\* that stays up
CbNext ==
  \/ SetupBegin
  \/ ConnectOk(0)
  \/ \E l \in Loops : ReadStart(l)
  \/ \E d \in CbFrames : PeerSend(d)
  \/ \E l \in Loops, cb_ok \in BOOLEAN : ReadChunk(l, 21, cb_ok)
  \/ \E k \in CbControllers, f \in Callbacks : Register(k, f)
  \/ \E k \in CbControllers, f \in Callbacks : Remove(k, f)

\* the entities of the banks, with their callbacks registered, are switched on and off,
\* and the debounce tasks send
SwitchNext ==
  \/ SetupBegin
  \/ ConnectOk(0)
  \/ \E b \in Banks, f \in Callbacks : Register(b, f)
  \/ \E b \in Banks : \E n \in Channels(b), byte \in {0, 255} : Toggle(b, n, byte)
  \/ \E b \in Banks : TimerFire(b)

(* ---------- the codec on its own ---------- *)

\* the bytes of a device: its class byte and its room byte
DeviceBytes(d) == <<DeviceCodes[d[1]], d[2]>>

\* the command byte of Command.Elevator
ElevatorCode == 1

\* the bytes of a packet of the send queue, a bytes object of 21 bytes
PacketBytes(p) ==
  WireFrame(<<48, 188>>, DeviceBytes(p.dst), DeviceBytes(p.src),
            IF p.cmd = "Elevator" THEN ElevatorCode ELSE CommandCodes[p.cmd],
            Bytes8(p.value), 0)

\* the bytes of the frame KocomPacket.create builds
CreateBytes(dst, cmd, value) ==
  WireFrame(<<48, 188>>, DeviceBytes(dst), DeviceBytes(Wallpad), CommandCodes[cmd],
            Bytes8(value), 0)

\* the destinations given to the codec: the classes with a room, the single devices
Dests ==
  {<<c, r>> : c \in {"Light", "Outlet", "Thermostat", "AirConditioner"}, r \in 0..MaxRoom}
    \cup {<<"Fan", 0>>, GasValve, <<"AirQuality", 0>>, <<"Elevator", 0>>, Wallpad}

\* the values given to the codec: all 00, FF on channel 0, an arrival, all FF (sum 2040)
CodecValues ==
  {Zero8, OnFirst, [Zero8 EXCEPT ![0] = 3], [i \in 0..7 |-> 255]}

\* what is done to a frame before it is decoded
Manglings ==
  {"empty", "short", "long", "header0", "header1", "footer0", "footer1", "ends",
   "data+1", "ack", "ack+1"}

\* a byte sequence made from the frame f: cut or lengthened, a header or footer byte
\* changed, or the second type byte changed (with the checksum byte following it)
Mangle(f, m) ==
  CASE m = "empty" -> <<>>
    [] m = "short" -> SubSeq(f, 2, 21)
    [] m = "long" -> f \o <<13>>
    [] m = "header0" -> [f EXCEPT ![1] = 171]
    [] m = "header1" -> [f EXCEPT ![2] = 86]
    [] m = "footer0" -> [f EXCEPT ![20] = 10]
    [] m = "footer1" -> [f EXCEPT ![21] = 10]
    [] m = "ends" -> [f EXCEPT ![1] = 0, ![21] = 0]
    [] m = "data+1" -> [f EXCEPT ![4] = 189, ![19] = (@ + 1) % 256]
    [] m = "ack" -> [f EXCEPT ![4] = 220, ![19] = (@ + 32) % 256]
    [] m = "ack+1" -> [f EXCEPT ![4] = 221, ![19] = (@ + 33) % 256]

\* everything but the codec
hubAll ==
  <<hubVars, bankVars, netVars, cpc, nRTasks, loopVars, disc, discDone, written, nEnq,
    consecFails, initFailed, bankHist, rxVars, ctlVars>>

\* the codec is given a destination, a command and a value
CodecInit ==
  /\ HubInit
  /\ codec \in {[pc |-> "input", dst |-> d, cmd |-> c, value |-> v, frame |-> <<>>,
                  how |-> "none", pkt |-> [err |-> "unset"]] :
                   d \in Dests, c \in DOMAIN CommandCodes, v \in CodecValues}

\* KocomPacket.create(dst, cmd, value)
CodecCreate ==
  /\ codec.pc = "input"
  /\ codec' = [codec EXCEPT !.pc = "built",
                             !.frame = CreateBytes(codec.dst, codec.cmd, codec.value)]
  /\ UNCHANGED hubAll

\* the frame is altered before it reaches the decoder
CodecMangle(m) ==
  /\ codec.pc = "built"
  /\ codec' = [codec EXCEPT !.pc = "mangled", !.how = m, !.frame = Mangle(@, m)]
  /\ UNCHANGED hubAll

\* KocomPacket(frame)
CodecDecode ==
  /\ codec.pc \in {"built", "mangled"}
  /\ codec' = [codec EXCEPT !.pc = "decoded", !.pkt = KocomPacket_init(codec.frame)]
  /\ UNCHANGED hubAll

CodecNext ==
  \/ CodecCreate
  \/ \E m \in Manglings : CodecMangle(m)
  \/ CodecDecode

(* ---------- the system ---------- *)

\* the connection manager, the loops and the send queue, with refresh() as the producer
HubNext ==
  \/ SetupBegin
  \/ \E t \in RTasks : ReconnectLoopHead(t)
  \/ \E c \in Callers : ConnectOk(c)
  \/ \E c \in Callers : ConnectFail(c)
  \/ \E c \in Callers : BackoffDone(c)
  \/ \E k \in Conns : ConnLost(k)
  \/ \E l \in Loops : ReadStart(l)
  \/ \E l \in Loops : ReadEOF(l)
  \/ \E l \in Loops : ReadDiscard(l)
  \/ \E l \in Loops : SendStart(l)
  \/ \E l \in Loops : SendWrite(l)
  \/ \E l \in Loops : SendDrainOk(l)
  \/ \E l \in Loops : SendDrainFail(l)
  \/ \E l \in Loops : SendSleepDone(l)
  \/ DisconnectBegin
  \/ DisconnectEnd
  \/ Refresh(<<"Light", 1>>)

\* an attempt of a reconnect task fails while a later attempt of the task can still be
\* made: the gateway refuses, but not for the whole budget of the task
ConnectFailWithinBudget(c) ==
  /\ reconnect_attempt_count < max_reconnect_attempts - 1
  /\ ConnectFail(c)

\* the hub left to itself: connections are lost and refused, disconnect() is not called
RecoverNext ==
  \/ SetupBegin
  \/ \E t \in RTasks : ReconnectLoopHead(t)
  \/ \E c \in Callers : ConnectOk(c)
  \/ \E c \in Callers : ConnectFailWithinBudget(c)
  \/ \E c \in Callers : BackoffDone(c)
  \/ \E k \in Conns : ConnLost(k)
  \/ \E l \in Loops : ReadStart(l)
  \/ \E l \in Loops : ReadEOF(l)
  \/ \E l \in Loops : ReadDiscard(l)
  \/ \E l \in Loops : SendStart(l)
  \/ \E l \in Loops : SendWrite(l)
  \/ \E l \in Loops : SendDrainOk(l)
  \/ \E l \in Loops : SendDrainFail(l)
  \/ \E l \in Loops : SendSleepDone(l)
  \/ Refresh(<<"Light", 1>>)

\* the Light / Outlet banks over a connection that stays up
BankNext ==
  \/ SetupBegin
  \/ ConnectOk(0)
  \/ \E l \in Loops : ReadStart(l)
  \/ \E l \in Loops, b \in Banks : \E value \in BankValues(b) : ReadFrame(l, b, value)
  \/ \E b \in Banks : \E n \in Channels(b), byte \in {0, 255} : Toggle(b, n, byte)
  \/ \E b \in Banks : TimerFire(b)

\* the banks while their entities only switch channels on and the peer reports every
\* channel off: a frame of the bank arrives between a turn_on and the end of its timer
RaceNext ==
  \/ SetupBegin
  \/ ConnectOk(0)
  \/ \E l \in Loops : ReadStart(l)
  \/ \E l \in Loops, b \in Banks : ReadFrame(l, b, Zero8)
  \/ \E b \in Banks : \E n \in Channels(b) : Toggle(b, n, 255)
  \/ \E b \in Banks : TimerFire(b)

\* the read loop over a connection that stays up, fed by the peer
ReadNext ==
  \/ SetupBegin
  \/ ConnectOk(0)
  \/ \E l \in Loops : ReadStart(l)
  \/ \E d \in GoodFrames \cup OtherChunks : PeerSend(d)
  \/ \E l \in Loops, cb_ok \in BOOLEAN, n \in 1..21 : ReadChunk(l, n, cb_ok)

\* the frames the peer sends while connections come and go
SeqFrames ==
  { FromDevice(DeviceCodes.Light, 1, OnFirst),
    FromDevice(DeviceCodes.Outlet, 1, OnSecond) }

\* the read loops across reconnections: a connection ends, a send loop or a read loop
\* notices, the reconnect task opens the next connection and starts a new pair of loops
SeqNext ==
  \/ SetupBegin
  \/ \E t \in RTasks : ReconnectLoopHead(t)
  \/ \E c \in Callers : ConnectOk(c)
  \/ \E k \in Conns : ConnLost(k)
  \/ \E l \in Loops : ReadStart(l)
  \/ \E l \in Loops : ReadEOF(l)
  \/ SendStart(1)
  \/ SendWrite(1)
  \/ SendDrainFail(1)
  \/ Refresh(<<"Light", 1>>)
  \/ \E d \in SeqFrames : PeerSend(d)
  \/ \E l \in Loops : ReadChunk(l, 21, TRUE)

Next == HubNext \/ BankNext \/ ReadNext \/ SeqNext \/ CodecNext \/ ValveNext \/ CmdNext \/ CbNext \/ SwitchNext \/ RaceNext \/ DevNext \/ AuthNext \/ SendNext \/ RecoverNext

Spec == Init /\ [][Next]_vars

HubSpec == Init /\ [][HubNext]_vars

BankSpec == Init /\ [][BankNext]_vars

ReadSpec == Init /\ [][ReadNext]_vars

SeqSpec == Init /\ [][SeqNext]_vars

CodecSpec == CodecInit /\ [][CodecNext]_vars

ValveSpec == Init /\ [][ValveNext]_vars

CmdSpec == Init /\ [][CmdNext]_vars

CbSpec == Init /\ [][CbNext]_vars

SwitchSpec == Init /\ [][SwitchNext]_vars

RaceSpec == Init /\ [][RaceNext]_vars

DevSpec == Init /\ [][DevNext]_vars

AuthSpec == Init /\ [][AuthNext]_vars

\* the send loop is a task of the event loop: once it can run (its first run, a frame in
\* the queue for get(), drain() on a connection that is up, the end of sleep(1)) it runs
SendFairSpec ==
  /\ Init
  /\ [][SendNext]_vars
  /\ \A l \in Loops : /\ WF_vars(SendStart(l))
                      /\ WF_vars(SendWrite(l))
                      /\ WF_vars(SendDrainOk(l))
                      /\ WF_vars(SendSleepDone(l))

\* the tasks of the hub are run by the event loop: a reconnect task reaches the head of
\* its loop, a backoff sleep ends, an open_connection returns or raises, a read loop is
\* first run and its read() returns on a connection that is gone, a send loop is first run
RecoverFairSpec ==
  /\ Init
  /\ [][RecoverNext]_vars
  /\ \A t \in RTasks : WF_vars(ReconnectLoopHead(t))
  /\ \A c \in Callers : /\ WF_vars(BackoffDone(c))
                        /\ WF_vars(ConnectOk(c) \/ ConnectFailWithinBudget(c))
  /\ \A l \in Loops : /\ WF_vars(ReadStart(l))
                      /\ WF_vars(ReadEOF(l))
                      /\ WF_vars(SendStart(l))

(* ---------- properties ---------- *)

\* connections the gateway or the network has ended
Lost == {k \in Conns : conn[k] = "lost"}

\* disconnect() has not been called
NoDisconnect == discDone = 0 /\ disc = "idle"

\* C1: frames are written in the order in which they were enqueued
FifoOrder ==
  \A i, j \in 1..Len(written) : i < j => written[i].seq < written[j].seq

\* C1 witness: two frames have been written, the second on a connection opened by a reconnect
FifoAcrossReconnect ==
  /\ Len(written) >= 2
  /\ written[1].conn # written[2].conn

\* C2: no frame is written while the one-second delay after an earlier write is running
QuiescenceDelay ==
  [][Len(written') > Len(written) => \A l \in Loops : sloop[l].pc # "sleep"]_vars

\* C3: the calls of one debounce window (opened by a call made when no timer is pending)
\* yield exactly one Set frame, carrying the vector before the calls with all of them applied
WindowCoalesces ==
  \A b \in Banks :
    win[b].calls >= 1 =>
      \/ timers[b] = 1 /\ win[b].sent = <<>>
      \/ timers[b] = 0 /\ win[b].sent = <<win[b].expect>>

\* C4: a bank never has more than one pending debounce timer
AtMostOneTimer ==
  \A b \in Banks : timers[b] <= 1

\* C5: once its timer has fired a bank is idle again, so k calls, each made when no timer
\* is pending, have produced k Set frames by the time no timer is pending
SpacedTogglesEachSend ==
  \A b \in Banks :
    (spaced[b] /\ timers[b] = 0) => sets[b] = toggles[b]

\* C6: at most one reconnect task is alive, and no more reconnect procedures are started
\* than connections were lost
OneReconnectPerLoss ==
  /\ Cardinality({t \in RTasks : cpc[t] \in Live}) <= 1
  /\ NoDisconnect => nRTasks <= Cardinality(Lost)

\* C7: the reconnect logic gives up only after max_reconnect_attempts failed attempts in a
\* row, and then automatic reconnection is marked disabled
ReconnectBound ==
  /\ consecFails <= max_reconnect_attempts
  /\ (NoDisconnect /\ consecFails > 0 /\ \A t \in RTasks : cpc[t] \notin Live)
       => (consecFails = max_reconnect_attempts /\ ~should_reconnect)

\* C8: a failed initial connect is raised at once: no retry, counter 0, no handles, no loops
InitialFailureFatal ==
  initFailed =>
    /\ cpc[0] = "failed"
    /\ reconnect_attempt_count = 0
    /\ reader = 0 /\ writer = 0
    /\ nConn = 0 /\ nLoops = 0 /\ nRTasks = 0

\* C8 witness: the initial open_connection has failed
InitialFailureSeen == initFailed /\ cpc[0] = "failed"

NoFrameLostOnFailure ==
  [][\A l \in Loops :
       (sloop[l].pc = "drain" /\ sloop'[l].pc = "done" /\ NoDisconnect)
         => Len(send_queue') > Len(send_queue)]_vars

\* C12: a chunk is handed to at most one controller, whose key is the decoded source, and
\* the pass of the read loop changes the state of no other controller and invokes the
\* callbacks of no other controller
DispatchBySource ==
  /\ [](/\ Cardinality(rx.handled) <= 1
        /\ rx.notified \subseteq rx.handled
        /\ \A k \in rx.handled :
             /\ k \in Controllers
             /\ KocomPacket_init(rx.data).err = "none"
             /\ KeyOf(k) = KocomPacket_init(rx.data).src)
  /\ [][rx'.n > rx.n =>
          /\ \A b \in Banks : b \notin rx'.handled => (state'[b] = state[b] /\ task'[b] = task[b])
          /\ \A r \in AirConditionerRooms :
               <<"AirConditioner", r>> \notin rx'.handled => ac_state'[r] = ac_state[r]]_vars

\* C12 witness: a frame from (Light, 1) was handed to the Light controller of room 1 while
\* the Outlet controller of room 1 keeps the state an earlier frame gave it
LightFrameLeavesOutlet ==
  /\ rx.handled = {<<"Light", 1>>}
  /\ state[<<"Light", 1>>] = OnFirst
  /\ state[<<"Outlet", 1>>] = OnSecond

\* a chunk of 21 bytes that begins AA 55 and ends 0D 0D
Framed(data) ==
  /\ Len(data) = 21
  /\ data[1] = 170 /\ data[2] = 85
  /\ data[20] = 13 /\ data[21] = 13

\* the checksum byte of a 21-byte chunk is the sum of its bytes 2..17 mod 256
ChecksumMatches(data) == data[19] = SumBytes(SubSeq(data, 3, 18)) % 256

\* C13: a controller's handler is invoked only for a well-formed chunk: length 21, header
\* AA 55, footer 0D 0D and a matching checksum
OnlyWellFormedDelivered ==
  rx.handled # {} => (Framed(rx.data) /\ ChecksumMatches(rx.data))

\* C13 as amended: a controller's handler is invoked only for a chunk of length 21 with
\* header AA 55 and footer 0D 0D; the checksum is not verified
OnlyFramedDelivered ==
  /\ rx.handled # {} => Framed(rx.data)
  /\ rx.n > 0 /\ ~Framed(rx.data) =>
       /\ rx.handled = {} /\ rx.notified = {} /\ ~rx.event

\* C13 witness: a 21-byte chunk with a wrong footer was read and no handler was invoked
BadFooterDropped ==
  /\ rx.n > 0
  /\ Len(rx.data) = 21
  /\ rx.data[21] # 13
  /\ rx.handled = {}

\* C14: a framed chunk with valid type, device and command fields and a wrong checksum is
\* decoded and dispatched as the same chunk with the right checksum is: to the controller
\* of its source, which takes over its value
ChecksumTolerated ==
  (rx.n > 0 /\ Framed(rx.data) /\ ~ChecksumMatches(rx.data)) =>
    LET fixed == [rx.data EXCEPT ![19] = SumBytes(SubSeq(rx.data, 3, 18)) % 256]
        p     == KocomPacket_init(fixed)
    IN  (p.err = "none" /\ p.type = "Seq" /\ Controller(p) \in Banks) =>
          /\ rx.handled = {Controller(p)}
          /\ state[Controller(p)] = p.value

\* C14 witness: the frame of (Light, 1) with both channels on and a checksum off by one was
\* read and the Light controller of room 1 holds its value
BadChecksumDispatched ==
  /\ rx.n > 0
  /\ Framed(rx.data) /\ ~ChecksumMatches(rx.data)
  /\ rx.handled = {<<"Light", 1>>}
  /\ state[<<"Light", 1>>] = [Zero8 EXCEPT ![0] = 255, ![1] = 255]

\* the pass of the read loop that has just ended left every controller as it was
ControllersUntouched ==
  /\ state' = state
  /\ task' = task
  /\ ac_state' = ac_state

\* the pass of the read loop that has just ended triggered no reconnect and every read
\* loop that was reading is reading again
ReadLoopGoesOn ==
  /\ nRTasks' = nRTasks
  /\ reconnect_task' = reconnect_task
  /\ \A l \in Loops : rloop[l].pc = "reading" => rloop'[l].pc = "reading"

\* C15: a chunk that fails decoding (length, header, footer, unknown type, device class or
\* command) is discarded: no controller changes, no reconnect, the read loop reads on
DecodeErrorHarmless ==
  [][(rx'.n > rx.n /\ KocomPacket_init(rx'.data).err # "none")
       => (ControllersUntouched /\ rx'.handled = {} /\ ReadLoopGoesOn)]_vars

\* C16: an error raised while a controller processes a decoded frame neither ends the read
\* loop nor triggers a reconnect: after every dispatched frame the loop reads on
HandlerErrorHarmless ==
  [][(rx'.n > rx.n /\ rx'.handled # {}) => ReadLoopGoesOn]_vars

\* C17: once the whole stream has been read, every well-formed data frame for a configured
\* controller that it contained has been dispatched, however the reads split the stream
AllFramesDelivered ==
  ((\A c \in Conns : wire[c] = <<>>) /\ ~rx.junk) => rx.dispatched = rx.good

\* C18: a decoded acknowledgement changes no controller, invokes no handler, callback or
\* event handler and enqueues nothing
AckDiscarded ==
  [][(rx'.n > rx.n /\ KocomPacket_init(rx'.data).err = "none"
        /\ KocomPacket_init(rx'.data).type = "Ack")
       => /\ ControllersUntouched
          /\ rx'.handled = {} /\ rx'.notified = {} /\ ~rx'.event
          /\ send_queue' = send_queue /\ nEnq' = nEnq]_vars

\* C18 witness: an acknowledgement from (Light, 1) carrying a value other than the
\* controller's was read, and the controller keeps its state
AckRead ==
  /\ rx.n > 0
  /\ Framed(rx.data)
  /\ rx.data[4] = 220
  /\ KocomPacket_init(rx.data).src = <<"Light", 1>>
  /\ state[<<"Light", 1>>] # KocomPacket_init(rx.data).value
  /\ rx.handled = {}

\* C19: a decoded data frame whose source is the key of no configured controller is
\* discarded: no controller changes, nothing is invoked or enqueued, no reconnect, and the
\* read loop reads on
UnroutedDiscarded ==
  [][(rx'.n > rx.n /\ KocomPacket_init(rx'.data).err = "none"
        /\ KocomPacket_init(rx'.data).type = "Seq"
        /\ KocomPacket_init(rx'.data).src \notin {KeyOf(k) : k \in Controllers})
       => /\ ControllersUntouched
          /\ rx'.handled = {} /\ rx'.notified = {} /\ ~rx'.event
          /\ send_queue' = send_queue /\ nEnq' = nEnq
          /\ ReadLoopGoesOn]_vars

\* C19 witness: a frame from the unconfigured (Light, 2) was read and dropped, and a read
\* loop is reading
UnconfiguredRoomRead ==
  /\ rx.n > 0
  /\ KocomPacket_init(rx.data).err = "none"
  /\ KocomPacket_init(rx.data).src = <<"Light", 2>>
  /\ rx.handled = {}
  /\ \E l \in Loops : rloop[l].pc = "reading"

\* C20: a data frame from the Wallpad goes to the Elevator controller when its destination
\* is the Elevator and is dropped otherwise; the arrival event is delivered exactly when
\* value byte [0] is 03; no other controller changes
ElevatorRouting ==
  /\ [](LET p == KocomPacket_init(rx.data)
        IN  (rx.n > 0 /\ p.err = "none" /\ p.type = "Seq" /\ p.src[1] = "Wallpad") =>
              IF p.dst[1] = "Elevator"
              THEN rx.handled = {<<"Elevator", 0>>} /\ rx.event = (p.value[0] = 3)
              ELSE rx.handled = {} /\ ~rx.event)
  /\ [][(rx'.n > rx.n /\ KocomPacket_init(rx'.data).err = "none"
           /\ KocomPacket_init(rx'.data).src[1] = "Wallpad")
          => ControllersUntouched]_vars

\* C20 witness: the arrival frame was read after a frame that gave (Light, 1) its state,
\* and the event was delivered
ElevatorArrived ==
  /\ rx.event
  /\ rx.handled = {<<"Elevator", 0>>}
  /\ state[<<"Light", 1>>] = OnFirst

\* what a controller holds: the vector of a bank or an air conditioner, the flag of the
\* gas valve (the elevator holds nothing)
CtlState(k) ==
  IF k \in Banks THEN state[k]
  ELSE IF k[1] = "AirConditioner" THEN ac_state[k[2]]
  ELSE IF k = GasValve THEN <<is_locked>>
  ELSE IF k \in Vectored THEN dev_state[k]
  ELSE <<>>

CreatedFrameLayout ==
  codec.pc = "built" =>
    LET f == codec.frame
    IN  /\ Len(f) = 21
        /\ f[1] = 170 /\ f[2] = 85
        /\ f[3] = 48 /\ f[4] = 188
        /\ f[5] = 0
        /\ f[8] = 1 /\ f[9] = 0
        /\ f[19] \in 0..255
        /\ f[19] = SumBytes(SubSeq(f, 3, 18)) % 256
        /\ f[20] = 13 /\ f[21] = 13

\* C23 witness: a frame has been built whose bytes 2..17 sum to more than 255
LargeSumBuilt ==
  /\ codec.pc = "built"
  /\ SumBytes(SubSeq(codec.frame, 3, 18)) > 255

\* C24: a byte sequence whose length is not 21, whose first two bytes are not AA 55 or
\* whose last two bytes are not 0D 0D is rejected with the AssertionError of the first
\* check it fails (length, header, footer) and yields no packet
MalformedRejected ==
  codec.pc = "decoded" =>
    LET f == codec.frame
        bad == [len |-> Len(f) # 21,
                head |-> Len(f) = 21 /\ (f[1] # 170 \/ f[2] # 85),
                foot |-> Len(f) = 21 /\ (f[20] # 13 \/ f[21] # 13)]
    IN  /\ (bad.len \/ bad.head \/ bad.foot) =>
              /\ codec.pkt.err = "AssertionError"
              /\ DOMAIN codec.pkt = {"err", "msg"}
        /\ bad.len => codec.pkt.msg = "Invalid packet length"
        /\ bad.head => codec.pkt.msg = "Invalid header"
        /\ (bad.foot /\ ~bad.head) => codec.pkt.msg = "Invalid footer"

\* C24 witness: a 21-byte sequence with the right header and a wrong last byte has been
\* rejected for its footer
BadFooterRejected ==
  /\ codec.pc = "decoded"
  /\ codec.how = "footer1"
  /\ codec.pkt.err = "AssertionError"
  /\ codec.pkt.msg = "Invalid footer"

\* C25: a frame whose type bytes are 30 BD is classified as a data frame and one whose
\* type bytes are 30 DD as an acknowledgement: decoding them succeeds
TypeRangeMatch ==
  /\ (codec.pc = "decoded" /\ codec.how = "data+1") =>
       (codec.pkt.err = "none" /\ codec.pkt.type = "Seq")
  /\ (codec.pc = "decoded" /\ codec.how = "ack+1") =>
       (codec.pkt.err = "none" /\ codec.pkt.type = "Ack")

\* the frame of the last read pass is a data frame whose source is the gas valve
ValveFrameRead ==
  /\ KocomPacket_init(rx.data).err = "none"
  /\ ~IsAck(KocomPacket_init(rx.data))
  /\ KocomPacket_init(rx.data).src = GasValve

\* C26: is_locked is false until a frame has been read; a read pass that takes a data
\* frame of the gas valve with command Lock leaves it true, one with command Unlock
\* leaves it false, whatever the value bytes; every other step (lock(), refresh(), a
\* frame of the valve with another command, anything else) leaves it as it was
LockedFollowsLastLockUnlock ==
  /\ [](rx.n = 0 => ~is_locked)
  /\ [][IF rx'.n = rx.n + 1 /\ ValveFrameRead'
           /\ KocomPacket_init(rx'.data).cmd \in {"Lock", "Unlock"}
        THEN is_locked' = (KocomPacket_init(rx'.data).cmd = "Lock")
        ELSE is_locked' = is_locked]_vars
  /\ [][(Lock \/ Refresh(GasValve)) => is_locked' = is_locked]_vars

\* C26 witness: the valve is locked, and the frame read last was a frame of the valve
\* with command Set and a value byte set, read after lock() or refresh() was called
LockedThroughOtherCommand ==
  /\ is_locked
  /\ rx.data = FromGasValve("Set", OnFirst)
  /\ nEnq >= 1

\* the frames the hub has enqueued and not yet written, and the frames it has written
FramesOut ==
  {send_queue[i].pkt : i \in 1..Len(send_queue)} \cup {written[i].pkt : i \in 1..Len(written)}

\* C27: no frame addressed to the gas valve that the hub enqueues or writes carries the
\* command Unlock: the commands of the frames to the gas valve are Lock and Get only
NoUnlockSent ==
  \A p \in FramesOut : p.dst = GasValve => (p.cmd # "Unlock" /\ p.cmd \in {"Lock", "Get"})

\* C27 witness: the frame of lock() was written to the connection, and the frame of the
\* valve's refresh() is out as well
LockFrameWritten ==
  /\ \E i \in 1..Len(written) : written[i].pkt.dst = GasValve /\ written[i].pkt.cmd = "Lock"
  /\ \E p \in FramesOut : p.dst = GasValve /\ p.cmd = "Get"

\* C29: refresh() of any controller puts exactly one frame at the end of the send
\* queue: a Get addressed to the device key of that controller with an all-zero value;
\* it writes nothing and leaves the vector, is_locked, the pending timer and the
\* callbacks of every controller as they were; what a controller holds changes only in
\* a step in which a frame is read
RefreshOnlyEnqueuesGet ==
  /\ [][\A k \in Controllers :
          Refresh(KeyOf(k)) =>
            /\ Len(send_queue') = Len(send_queue) + 1
            /\ SubSeq(send_queue', 1, Len(send_queue)) = send_queue
            /\ send_queue'[Len(send_queue')].pkt =
                 [type |-> "Seq", dst |-> KeyOf(k), src |-> Wallpad, cmd |-> "Get",
                  value |-> Zero8]
            /\ written' = written
            /\ \A c \in Controllers : CtlState(c)' = CtlState(c)
            /\ task' = task
            /\ timers' = timers
            /\ callbacks' = callbacks]_vars
  /\ [][\A c \in Controllers : CtlState(c)' # CtlState(c) => rx'.n = rx.n + 1]_vars

\* C29 witness: the Get of the bank's refresh() was written, the answer of the bank has
\* arrived and given the bank its vector, and the Get of the elevator's refresh(),
\* addressed to the Wallpad, is out
RefreshAnswered ==
  /\ \E i \in 1..Len(written) :
       written[i].pkt.dst = <<"Light", 1>> /\ written[i].pkt.cmd = "Get"
  /\ state[<<"Light", 1>>] = OnFirst
  /\ \E p \in FramesOut : p.dst = Wallpad /\ p.cmd = "Get" /\ p.value = Zero8

\* C28: turn_on(n) / turn_off(n) of a bank takes effect locally at once: right after
\* the call is_on(n) is true / false, every other channel of the vector and every other
\* bank are as before, no frame has been enqueued or written, and no callback has been
\* invoked
ToggleIsLocal ==
  [][\A b \in Banks : \A n \in Channels(b), byte \in {0, 255} :
       Toggle(b, n, byte) =>
         /\ IsOn(state'[b], n) = (byte = 255)
         /\ \A m \in (0..7) \ {n} : state'[b][m] = state[b][m]
         /\ \A c \in Banks \ {b} : state'[c] = state[c]
         /\ send_queue' = send_queue
         /\ written' = written
         /\ nEnq' = nEnq
         /\ rx'.invoked = rx.invoked
         /\ rx'.notified = rx.notified
         /\ callbacks' = callbacks]_vars

\* C28 witness: with a callback registered, the light was switched twice, channel 1 is
\* on beside channel 0 that is off, and the frame of the debounce task is in the queue
SwitchedOffBesideOn ==
  /\ callbacks[<<"Light", 1>>] # <<>>
  /\ toggles[<<"Light", 1>>] >= 2
  /\ ~IsOn(state[<<"Light", 1>>], 0)
  /\ IsOn(state[<<"Light", 1>>], 1)
  /\ Len(send_queue) = 1

\* how many times a callback was invoked in the last read pass
TimesInvoked(f) == Cardinality({i \in 1..Len(rx.invoked) : rx.invoked[i] = f})

\* C30: the registry of a controller is a set: it holds no callback twice, registering a
\* registered callback and removing an unregistered one leave it as it is, and for every
\* frame handed to a controller each callback registered with it is invoked exactly once
\* and no callback that is not registered (never registered, or removed) is invoked
CallbackOncePerFrame ==
  /\ [](\A k \in Controllers : \A f \in Callbacks :
          /\ Cardinality(Range(callbacks[k])) = Len(callbacks[k])
          /\ SetAdd(SetAdd(callbacks[k], f), f) = SetAdd(callbacks[k], f)
          /\ f \in Range(callbacks[k]) => SetAdd(callbacks[k], f) = callbacks[k]
          /\ f \notin Range(callbacks[k]) => SetDiscard(callbacks[k], f) = callbacks[k])
  /\ [][\A k \in Controllers :
          (rx'.n = rx.n + 1 /\ rx'.handled = {k}) =>
            \A f \in Callbacks :
              TimesInvoked(f)' = IF f \in Range(callbacks[k]) THEN 1 ELSE 0]_vars

\* C40: the reconnect attempt counter stays within 0 .. max_reconnect_attempts, and it
\* is 0 right after every step in which a connection was opened
AttemptCounterBounded ==
  /\ [](reconnect_attempt_count \in 0..max_reconnect_attempts)
  /\ [][nConn' = nConn + 1 => reconnect_attempt_count' = 0]_vars

\* C40 witness: the second connection, opened by a reconnect task, was lost in its turn,
\* and the reconnect task of this new outage is in its first attempt
NewOutageFullBudget ==
  /\ nConn >= 2
  /\ conn[2] = "lost"
  /\ nRTasks >= 2
  /\ cpc[2] = "connecting"
  /\ reconnect_attempt_count = 1

\* C38: a read and a send loop are started only in a step in which a connection was
\* opened, and the hub then holds the reader and the writer of that new connection; a
\* reconnect procedure whose attempts have all failed starts no loop
LoopsOnlyOnFreshConnection ==
  [][nLoops' > nLoops =>
       /\ nConn' = nConn + 1
       /\ reader' = nConn'
       /\ writer' = nConn'
       /\ conn'[nConn'] = "open"]_vars

\* C37: at most one read loop and at most one send loop are running, whatever
\* connection failures and reconnections came before
AtMostOneLoopEach ==
  /\ Cardinality({l \in Loops : rloop[l].pc = "reading"}) <= 1
  /\ Cardinality({l \in Loops : sloop[l].pc \in {"get", "drain", "sleep"}}) <= 1

\* C39: the Set frame enqueued when a debounce timer fires carries every turn_on of the
\* window, also when a frame of the same bank was handled while the timer was pending.
\* Where the entities only switch on and the bank only reports every channel off, a
\* window whose timer exists opened on an all-zero vector, so the channels its
\* turn_on calls switched are the channels of the expected vector that hold FF
TogglesSurviveInbound ==
  [][\A b \in Banks :
       Len(win'[b].sent) > Len(win[b].sent) =>
         \A n \in Channels(b) :
           win[b].expect[n] = 255 => win'[b].sent[Len(win'[b].sent)][n] = 255]_vars

\* the elevator call frame as it is seen on the bus:
\* AA 55 30 BC 00 01 00 44 00 01 00 00 00 00 00 00 00 00 32 0D 0D
CallFrame == <<170, 85, 48, 188, 0, 1, 0, 68, 0, 1, 0, 0, 0, 0, 0, 0, 0, 0, 50, 13, 13>>

\* C36: Elevator.call() puts exactly one frame at the end of the send queue, the 21
\* bytes of CallFrame, writes nothing itself and changes the state of no controller;
\* frames, the call frame among them, are written in the order of their enqueueing
CallEnqueuesRawFrame ==
  /\ [][Call =>
          /\ Len(send_queue') = Len(send_queue) + 1
          /\ SubSeq(send_queue', 1, Len(send_queue)) = send_queue
          /\ PacketBytes(send_queue'[Len(send_queue')].pkt) = CallFrame
          /\ written' = written
          /\ \A c \in Controllers : CtlState(c)' = CtlState(c)
          /\ task' = task
          /\ timers' = timers]_vars
  /\ [](\A i, j \in 1..Len(written) : i < j => written[i].seq < written[j].seq)

\* C36 witness: the call frame was written to the connection after the Get of a
\* refresh() that had been enqueued before it
CallWrittenAfterGet ==
  /\ Len(written) = 2
  /\ written[1].pkt.cmd = "Get"
  /\ PacketBytes(written[2].pkt) = CallFrame

\* the step put exactly one frame at the end of the send queue, a Set addressed to
\* controller k that carries the vector k holds after the step, and wrote nothing, and
\* started no debounce task
SentNow(k) ==
  /\ Len(send_queue') = Len(send_queue) + 1
  /\ SubSeq(send_queue', 1, Len(send_queue)) = send_queue
  /\ send_queue'[Len(send_queue')].pkt =
       [type |-> "Seq", dst |-> k, src |-> Wallpad, cmd |-> "Set", value |-> dev_state'[k]]
  /\ written' = written
  /\ timers' = timers
  /\ task' = task

\* the step changed the vector of controller k on the bytes of `bytes` at most, and the
\* vector of no other thermostat or fan
OnlyBytes(k, bytes) ==
  /\ \A i \in (0..7) \ bytes : dev_state'[k][i] = dev_state[k][i]
  /\ \A c \in Vectored \ {k} : dev_state'[c] = dev_state[c]

\* C34: on() leaves bytes [0], [1] of the thermostat's vector at 11 00, off() at 01 00,
\* away() at 11 01, set_temp(t) leaves byte [2] at t; each call leaves every other byte
\* as it was and at once puts exactly one Set frame for (Thermostat, room) with the
\* whole new vector on the send queue
ThermostatCallsSendAtOnce ==
  [][\A r \in ThermostatRooms :
       LET k == <<"Thermostat", r>>
       IN  /\ on(r) => /\ dev_state'[k][0] = 17 /\ dev_state'[k][1] = 0
                       /\ OnlyBytes(k, {0, 1}) /\ SentNow(k)
           /\ off(r) => /\ dev_state'[k][0] = 1 /\ dev_state'[k][1] = 0
                        /\ OnlyBytes(k, {0, 1}) /\ SentNow(k)
           /\ away(r) => /\ dev_state'[k][0] = 17 /\ dev_state'[k][1] = 1
                         /\ OnlyBytes(k, {0, 1}) /\ SentNow(k)
           /\ \A t \in Temps :
                set_temp(r, t) => /\ Thermostat_target_temp(dev_state'[k]) = t
                                  /\ OnlyBytes(k, {2}) /\ SentNow(k)]_vars

\* C34 witness: after a frame of the thermostat (away, 22 degrees, 21 measured) on()
\* and set_temp(25) were called: the second frame in the queue carries 11 00 19 and the
\* measured temperature the frame brought
ThermostatSetAfterFrame ==
  /\ Len(send_queue) = 2
  /\ send_queue[1].pkt.value = [Zero8 EXCEPT ![0] = 17, ![2] = 22, ![4] = 21]
  /\ send_queue[2].pkt.dst = <<"Thermostat", 1>>
  /\ send_queue[2].pkt.value = [Zero8 EXCEPT ![0] = 17, ![2] = 25, ![4] = 21]
  /\ Thermostat_is_on(dev_state[<<"Thermostat", 1>>])
  /\ ~Thermostat_is_away(dev_state[<<"Thermostat", 1>>])

\* C35: set_step(step) with step in 1..3 leaves is_on true, the step getter at step,
\* byte [0] at 11 and byte [2] at step * 40; set_step(0) leaves byte [0] at 00 and
\* byte [2] as it was; each call puts one Set frame with the new vector on the send
\* queue; and every Set frame for the fan in the queue carries 01 at byte [1]
FanSetStep ==
  /\ [][\A step \in 0..3 :
          set_step(step) =>
            /\ SentNow(Fan)
            /\ IF step = 0
               THEN /\ dev_state'[Fan][0] = 0
                    /\ dev_state'[Fan][2] = dev_state[Fan][2]
               ELSE /\ Fan_is_on(dev_state'[Fan])
                    /\ Fan_step(dev_state'[Fan]) = step
                    /\ dev_state'[Fan][0] = 17
                    /\ dev_state'[Fan][2] = step * 64]_vars
  /\ [](\A i \in 1..Len(send_queue) :
          send_queue[i].pkt.dst = Fan /\ send_queue[i].pkt.cmd = "Set"
            => send_queue[i].pkt.value[1] = 1)

\* C33: when a pass of the read loop hands a data frame to a light bank, an outlet bank,
\* a thermostat, the fan or an air conditioner, the whole vector of that controller is the
\* value decoded from the frame afterwards, whatever was assigned locally before, and the
\* getters read the frame: is_on of each channel of a bank, is_on / is_away / target_temp
\* of a thermostat, is_on / step of the fan
FrameIsAuthoritative ==
  [][\A k \in Banks \cup {<<"AirConditioner", r>> : r \in AirConditionerRooms} \cup Vectored :
       (rx'.n = rx.n + 1 /\ rx'.handled = {k}) =>
         LET value == KocomPacket_init(rx'.data).value
         IN  /\ CtlState(k)' = value
             /\ k \in Banks =>
                  \A n \in Channels(k) : IsOn(state'[k], n) <=> value[n] = 255
             /\ k[1] = "Thermostat" =>
                  /\ Thermostat_is_on(dev_state'[k]) <=> value[0] = 17
                  /\ Thermostat_is_away(dev_state'[k]) <=> value[1] = 1
                  /\ Thermostat_target_temp(dev_state'[k]) = value[2]
             /\ k = Fan =>
                  /\ Fan_is_on(dev_state'[k]) <=> value[0] = 17
                  /\ Fan_step(dev_state'[k]) = value[2] \div 64]_vars

\* C33 witness: set_step(3) put a Set frame with step 3 on the send queue, then the frame
\* of the fan (step 2) was handled: the step getter reads 2, and the light bank, whose
\* first channel was switched on locally, holds the vector of its frame, first channel off
FanFrameAfterSetStep ==
  /\ rx.handled = {Fan}
  /\ \E i \in 1..Len(send_queue) :
       send_queue[i].pkt.dst = Fan /\ send_queue[i].pkt.value[2] = 192
  /\ Fan_step(dev_state[Fan]) = 2
  /\ dev_state[Fan] = [Zero8 EXCEPT ![0] = 17, ![1] = 1, ![2] = 128]
  /\ win[<<"Light", 1>>].expect[0] = 255
  /\ state[<<"Light", 1>>] = OnSecond
  /\ ~IsOn(state[<<"Light", 1>>], 0)


\* C32: over a connection that stays up, with the send loop run fairly, each frame put on
\* the send queue is written to the connection at some later point; and at every moment
\* the frames written are the first frames enqueued, each once and in the order of
\* enqueueing, none written twice and none passed over
EveryFrameWrittenOnce ==
  /\ \A s \in 1..MaxFrames :
       (\E i \in 1..Len(send_queue) : send_queue[i].seq = s)
         ~> (\E j \in 1..Len(written) : written[j].seq = s)
  /\ [](\A j \in 1..Len(written) : written[j].seq = j /\ written[j].conn = writer)
  /\ [](\A i \in 1..Len(send_queue) : send_queue[i].seq = Len(written) + i)

\* C32 witness: MaxFrames frames were enqueued and each of them was written, the queue
\* is empty and the send loop waits in get()
AllFramesWritten ==
  /\ nEnq = MaxFrames
  /\ Len(written) = MaxFrames
  /\ \A j \in 1..MaxFrames : written[j].seq = j
  /\ send_queue = <<>>
  /\ \E l \in Loops : sloop[l].pc = "get"


\* the hub holds an open connection, a read loop reads from it and a send loop runs
Connected ==
  /\ reader # 0
  /\ conn[reader] = "open"
  /\ \E l \in Loops : rloop[l].pc = "reading" /\ rloop[l].rd = reader
  /\ \E l \in Loops : sloop[l].pc \in {"get", "drain", "sleep"}

====
